---- MODULE Spec2Model ----
(***************************************************************************)
(* Model of todoist-update-trmnl.py: the OAuth authorization-code capture  *)
(* of TrmnlTodoistHookup.  Two execution contexts are modelled at the      *)
(* granularity of one shared-attribute access per step: the main thread    *)
(* (__init__, main, authenticate, reset_auth, shutdown_local_server) and   *)
(* the listener threads (start_local_server, serve_forever, do_GET).       *)
(***************************************************************************)
EXTENDS Integers, Sequences, FiniteSets, TLC

\* ---------------------------------------------------------------- bounds
\* Number of HTTP requests the environment sends during one program run.
MaxRequests == 2

\* ------------------------------------------------------------ data values
\* Python's None, kept apart from the text "None".
None == "<None>"
\* A query parameter that does not occur in the query string.
Missing == "<missing>"

\* main() constructs one object; __init__ (line 73) and main (line 404) each
\* call authenticate at most once, so a run has at most two flows, and each
\* flow creates one listener thread and at most one HTTPServer object.
Calls == {1, 2}

\* uuid.uuid4() of the n-th authenticate call, rendered by str().
Uuid(n) == IF n = 1 THEN "u1" ELSE "u2"

\* The literal of line 109.
CallbackPath == <<"/", "c", "a", "l", "l", "b", "a", "c", "k">>

\* Request targets the environment may send: path, then "?" and the query.
Paths == { CallbackPath, CallbackPath \o <<"x">>, <<"/", "o">> }
RawCodes == { Missing, "", "c1", "c2" }
RawStates == { Missing, "u1", "u2", "None" }
Requests == [ path : Paths, code : RawCodes, state : RawStates ]

\* Contents of access_token.json: no file, an unreadable file, a record
\* whose access_token is null, or a record holding a token.  A run starts
\* with no file, an unreadable file or a stored token.
Absent == "<absent>"
Corrupt == "<corrupt>"
NullRecord == "<null-record>"
OldToken == "t0"
InitialFiles == { Absent, Corrupt, OldToken }
\* Access tokens the provider may return from the exchange.
NewTokens == { "tA", "tB" }

\* --------------------------------------------------------- pure functions
\* str(x) as used on line 194.
Str(x) == IF x = None THEN "None" ELSE x

\* s.startswith(prefix)
StartsWith(s, prefix) ==
    /\ Len(s) >= Len(prefix)
    /\ \A k \in 1..Len(prefix) : s[k] = prefix[k]

\* handler_self.path: the request target, query string included.
Target(r) == r.path \o <<"?">>

\* The test of line 109.
IsCallback(r) == StartsWith(Target(r), CallbackPath)

\* params.get(name, [None])[0] after urllib.parse.parse_qs (lines 118-120):
\* parse_qs drops blank values, so a blank parameter reads like a missing one.
ParseQs(raw) == IF raw \in {Missing, ""} THEN None ELSE raw

\* Truthiness of an optional string (lines 72, 123, 402).
Truthy(x) == x \notin {None, ""}

\* Whether do_GET reaches its stores, given the parsed code and state: the
\* slices of line 121 raise TypeError on None, and line 123 wants both truthy.
\* (Stores_Either: the variant that stores when either one is there.)
Stores_Either(code, state) == Truthy(code) \/ Truthy(state)
Stores(code, state) ==
    /\ code # None /\ state # None
    /\ Truthy(code) /\ Truthy(state)

\* The comparison of line 194 (StateMismatch_Never: the variant without it).
StateMismatch_Never(expected, got) == FALSE
StateMismatch(expected, got) == Str(expected) # Str(got)

\* json.load + data.get("access_token") of load_access_token (lines 389-394):
\* the token the object holds after loading, given the file
\* (LoadedToken_Ignore: the variant that never takes the file's token).
LoadedToken_Ignore(f) == None
LoadedToken(f) == IF f \in {Absent, Corrupt, NullRecord} THEN None ELSE f

\* ------------------------------------------------------------------ state
VARIABLES
    file,                            \* contents of access_token.json
    todoist_api_token,               \* self.todoist_api_token
    todoist_response_auth_code,      \* self.todoist_response_auth_code
    todoist_response_state,          \* self.todoist_response_state
    todoist_oauth_callback_received, \* self.todoist_oauth_callback_received
    httpd,            \* self.httpd: 0 = attribute not set, else the server
    sock,             \* per server: "none", "open" (bound, listening), "closed"
    shutdown_request, \* per server: BaseServer.__shutdown_request
    is_shut_down,     \* per server: BaseServer.__is_shut_down (an Event)
    pc,               \* main thread: position
    ctx,              \* main thread: which part of authenticate runs reset/shutdown
    stage,            \* main thread: shutdown called from reset_auth or directly
    caller,           \* main thread: who called authenticate ("init" / "main")
    call,             \* number of authenticate calls started
    state,            \* authenticate's local `state`
    sd,               \* the server object a running httpd.shutdown() waits on
    timed_out,        \* the wait loop of this call took the branch of line 177
    interrupted,      \* a KeyboardInterrupt has been delivered
    checked_state,    \* the value line 194 read from todoist_response_state
    sent_code,        \* the code passed to get_auth_token
    auth_result,      \* authenticate's local auth_result.access_token
    result,           \* what the last authenticate call returned
    bearer,           \* the token get_todoist_data put in its header
    lpc,              \* per listener thread: position
    lsd,              \* per listener thread: server its httpd.shutdown() waits on
    h_code,           \* per listener thread: do_GET's local `code`
    h_state,          \* per listener thread: do_GET's local `state`
    response,         \* status of the last response the current listener sent
    delivered,        \* times line 126 set the flag in the current listener
    served,           \* requests the environment has sent so far
    browser_opens,    \* calls of webbrowser.open
    exchange_calls,   \* calls of get_auth_token
    save_calls,       \* calls of save_access_token
    code_by,          \* serial of the request that stored the code (0: none)
    state_by,         \* serial of the request that stored the state (0: none)
    checked_by,       \* state_by of the value line 194 read
    trunc             \* the running call of truncate_data_to_limit, if any

shared == << todoist_api_token, todoist_response_auth_code,
             todoist_response_state, todoist_oauth_callback_received >>
servers == << httpd, sock, shutdown_request, is_shut_down >>
mainv == << pc, ctx, stage, caller, call, state, sd, timed_out, interrupted,
            checked_state, sent_code, auth_result, result, bearer >>
listv == << lpc, lsd, h_code, h_state, response, delivered, served >>
spies == << browser_opens, exchange_calls, save_calls >>
origin == << code_by, state_by, checked_by >>
vars == << file, shared, servers, mainv, listv, spies, origin, trunc >>

\* No call of truncate_data_to_limit is running.
NotCalled == [ tpc |-> "idle" ]

\* State after `python todoist-update-trmnl.py` has entered __init__
\* (lines 49-67) and before load_access_token runs.
InitObject ==
    /\ file \in InitialFiles
    /\ todoist_api_token = None
    /\ todoist_response_auth_code = None
    /\ todoist_response_state = None
    /\ todoist_oauth_callback_received = FALSE
    /\ httpd = 0
    /\ sock = [s \in Calls |-> "none"]
    /\ shutdown_request = [s \in Calls |-> FALSE]
    /\ is_shut_down = [s \in Calls |-> FALSE]
    /\ pc = "init_load"
    /\ ctx = "none"
    /\ stage = "direct"
    /\ caller = "init"
    /\ call = 0
    /\ state = None
    /\ sd = 0
    /\ timed_out = FALSE
    /\ interrupted = FALSE
    /\ checked_state = None
    /\ sent_code = None
    /\ auth_result = None
    /\ result = "none"
    /\ bearer = "<unused>"
    /\ lpc = [t \in Calls |-> "idle"]
    /\ lsd = [t \in Calls |-> 0]
    /\ h_code = [t \in Calls |-> None]
    /\ h_state = [t \in Calls |-> None]
    /\ response = 0
    /\ delivered = 0
    /\ served = 0
    /\ browser_opens = 0
    /\ exchange_calls = 0
    /\ save_calls = 0
    /\ code_by = 0
    /\ state_by = 0
    /\ checked_by = 0

Init == InitObject /\ trunc = NotCalled

\* ------------------------------------------------- listener thread t
\* start_local_server begins with reset_auth (line 104): lines 77-80, one
\* attribute store per step.
TResetCode(t) ==
    /\ lpc[t] = "t_code"
    /\ code_by' = 0
    /\ todoist_response_auth_code' = None
    /\ lpc' = [lpc EXCEPT ![t] = "t_state"]
    /\ UNCHANGED << trunc, file, todoist_api_token, todoist_response_state,
                    todoist_oauth_callback_received, servers, mainv, lsd,
                    h_code, h_state, response, delivered, served, spies,
                    state_by, checked_by >>

TResetState(t) ==
    /\ lpc[t] = "t_state"
    /\ state_by' = 0
    /\ todoist_response_state' = None
    /\ lpc' = [lpc EXCEPT ![t] = "t_token"]
    /\ UNCHANGED << trunc, file, todoist_api_token, todoist_response_auth_code,
                    todoist_oauth_callback_received, servers, mainv, lsd,
                    h_code, h_state, response, delivered, served, spies,
                    code_by, checked_by >>

TResetToken(t) ==
    /\ lpc[t] = "t_token"
    /\ todoist_api_token' = None
    /\ lpc' = [lpc EXCEPT ![t] = "t_flag"]
    /\ UNCHANGED << trunc, file, todoist_response_auth_code, todoist_response_state,
                    todoist_oauth_callback_received, servers, mainv, lsd,
                    h_code, h_state, response, delivered, served, spies,
                    origin >>

TResetFlag(t) ==
    /\ lpc[t] = "t_flag"
    /\ todoist_oauth_callback_received' = FALSE
    /\ lpc' = [lpc EXCEPT ![t] = "t_sd"]
    /\ UNCHANGED << trunc, file, todoist_api_token, todoist_response_auth_code,
                    todoist_response_state, servers, mainv, lsd,
                    h_code, h_state, response, delivered, served, spies,
                    origin >>

\* shutdown_local_server called by reset_auth (line 81), lines 142-144:
\* nothing to do without a server object; else httpd.shutdown() sets the
\* server's shutdown request and then waits for its is_shut_down event.
TShutdownRequest(t) ==
    /\ lpc[t] = "t_sd"
    /\ IF httpd = 0
         THEN /\ lpc' = [lpc EXCEPT ![t] = "t_bind"]
              /\ UNCHANGED << shutdown_request, lsd >>
         ELSE /\ shutdown_request' = [shutdown_request EXCEPT ![httpd] = TRUE]
              /\ lsd' = [lsd EXCEPT ![t] = httpd]
              /\ lpc' = [lpc EXCEPT ![t] = "t_sd_wait"]
    /\ UNCHANGED << trunc, file, shared, httpd, sock, is_shut_down, mainv,
                    h_code, h_state, response, delivered, served, spies,
                    origin >>

\* BaseServer.shutdown: self.__is_shut_down.wait()
TShutdownWait(t) ==
    /\ lpc[t] = "t_sd_wait"
    /\ is_shut_down[lsd[t]]
    /\ lpc' = [lpc EXCEPT ![t] = "t_sd_close"]
    /\ UNCHANGED << trunc, file, shared, servers, mainv, lsd,
                    h_code, h_state, response, delivered, served, spies,
                    origin >>

\* line 145: self.httpd.server_close() (self.httpd is read again)
TServerClose(t) ==
    /\ lpc[t] = "t_sd_close"
    /\ sock' = [sock EXCEPT ![httpd] = "closed"]
    /\ lpc' = [lpc EXCEPT ![t] = "t_bind"]
    /\ UNCHANGED << trunc, file, shared, httpd, shutdown_request, is_shut_down, mainv,
                    lsd, h_code, h_state, response, delivered, served, spies,
                    origin >>

\* lines 133-134: HTTPServer(('', 8080), RequestHandler) binds and listens,
\* then self.httpd is assigned.  The port can be bound only when no socket of
\* this process is still listening on it; another process may hold it too.
PortFree == \A s \in Calls : sock[s] # "open"

TBind(t) ==
    /\ lpc[t] = "t_bind"
    /\ PortFree
    /\ sock' = [sock EXCEPT ![t] = "open"]
    /\ httpd' = t
    /\ lpc' = [lpc EXCEPT ![t] = "t_serve"]
    /\ UNCHANGED << trunc, file, shared, shutdown_request, is_shut_down, mainv,
                    lsd, h_code, h_state, response, delivered, served, spies,
                    origin >>

\* The constructor raises OSError (address already in use): the exception is
\* outside the try of lines 136-139 and ends the thread; self.httpd is not
\* assigned.
TBindFails(t) ==
    /\ lpc[t] = "t_bind"
    /\ lpc' = [lpc EXCEPT ![t] = "dead"]
    /\ UNCHANGED << trunc, file, shared, servers, mainv,
                    lsd, h_code, h_state, response, delivered, served, spies,
                    origin >>

\* line 137, entry of serve_forever: the event is cleared and the socket is
\* registered with the selector, which raises on a closed socket.
TServeForever(t) ==
    /\ lpc[t] = "t_serve"
    /\ is_shut_down' = [is_shut_down EXCEPT ![t] = FALSE]
    /\ lpc' = [lpc EXCEPT ![t] = IF sock[t] = "open" THEN "t_loop" ELSE "t_exit"]
    /\ UNCHANGED << trunc, file, shared, httpd, sock, shutdown_request, mainv,
                    lsd, h_code, h_state, response, delivered, served, spies,
                    origin >>

\* serve_forever's loop sees the shutdown request.
TLoopStop(t) ==
    /\ lpc[t] = "t_loop"
    /\ shutdown_request[t]
    /\ lpc' = [lpc EXCEPT ![t] = "t_exit"]
    /\ UNCHANGED << trunc, file, shared, servers, mainv,
                    lsd, h_code, h_state, response, delivered, served, spies,
                    origin >>

\* The socket was closed under the selector: select may raise.
TLoopError(t) ==
    /\ lpc[t] = "t_loop"
    /\ sock[t] = "closed"
    /\ lpc' = [lpc EXCEPT ![t] = "t_exit"]
    /\ UNCHANGED << trunc, file, shared, servers, mainv,
                    lsd, h_code, h_state, response, delivered, served, spies,
                    origin >>

\* One request r is accepted and do_GET runs up to its first store
\* (lines 108-123).  A path that passes line 109 is answered 200; the code and
\* state are parsed; with either of them None, line 121 raises TypeError,
\* which socketserver reports and survives, so nothing is stored.  Any other
\* path is answered 404.
TServe(t, r) ==
    /\ lpc[t] = "t_loop"
    /\ ~shutdown_request[t]
    /\ sock[t] = "open"
    /\ served < MaxRequests
    /\ served' = served + 1
    /\ IF IsCallback(r)
         THEN /\ response' = 200
              /\ IF Stores(ParseQs(r.code), ParseQs(r.state))
                   THEN /\ h_code' = [h_code EXCEPT ![t] = ParseQs(r.code)]
                        /\ h_state' = [h_state EXCEPT ![t] = ParseQs(r.state)]
                        /\ lpc' = [lpc EXCEPT ![t] = "h_code"]
                   ELSE UNCHANGED << h_code, h_state, lpc >>
         ELSE /\ response' = 404
              /\ UNCHANGED << h_code, h_state, lpc >>
    /\ UNCHANGED << trunc, file, shared, servers, mainv, lsd, delivered, spies, origin >>

\* Variant of do_GET that sets the flag (line 126) where line 124 stands,
\* before the code is stored.
THandlerCode_FlagFirst(t) ==
    /\ lpc[t] = "h_code"
    /\ todoist_oauth_callback_received' = TRUE
    /\ lpc' = [lpc EXCEPT ![t] = "h_state"]
    /\ UNCHANGED << trunc, file, todoist_api_token, todoist_response_state,
                    todoist_response_auth_code, servers, mainv, lsd,
                    h_code, h_state, response, delivered, served, spies,
                    origin >>

\* line 124
THandlerCode(t) ==
    /\ lpc[t] = "h_code"
    /\ code_by' = served
    /\ todoist_response_auth_code' = h_code[t]
    /\ lpc' = [lpc EXCEPT ![t] = "h_state"]
    /\ UNCHANGED << trunc, file, todoist_api_token, todoist_response_state,
                    todoist_oauth_callback_received, servers, mainv, lsd,
                    h_code, h_state, response, delivered, served, spies,
                    state_by, checked_by >>

\* line 125
THandlerState(t) ==
    /\ lpc[t] = "h_state"
    /\ state_by' = served
    /\ todoist_response_state' = h_state[t]
    /\ lpc' = [lpc EXCEPT ![t] = "h_flag"]
    /\ UNCHANGED << trunc, file, todoist_api_token, todoist_response_auth_code,
                    todoist_oauth_callback_received, servers, mainv, lsd,
                    h_code, h_state, response, delivered, served, spies,
                    code_by, checked_by >>

\* line 126, and do_GET returns to serve_forever's loop
THandlerFlag(t) ==
    /\ lpc[t] = "h_flag"
    /\ todoist_oauth_callback_received' = TRUE
    /\ delivered' = delivered + 1
    /\ h_code' = [h_code EXCEPT ![t] = None]
    /\ h_state' = [h_state EXCEPT ![t] = None]
    /\ lpc' = [lpc EXCEPT ![t] = "t_loop"]
    /\ UNCHANGED << trunc, file, todoist_api_token, todoist_response_auth_code,
                    todoist_response_state, servers, mainv, lsd,
                    response, served, spies, origin >>

\* serve_forever's finally clause; start_local_server returns (or reports
\* the exception, lines 138-139) and the thread ends.
TServeExit(t) ==
    /\ lpc[t] = "t_exit"
    /\ shutdown_request' = [shutdown_request EXCEPT ![t] = FALSE]
    /\ is_shut_down' = [is_shut_down EXCEPT ![t] = TRUE]
    /\ lpc' = [lpc EXCEPT ![t] = "done"]
    /\ UNCHANGED << trunc, file, shared, httpd, sock, mainv,
                    lsd, h_code, h_state, response, delivered, served, spies,
                    origin >>

Listener(t) ==
    \/ TResetCode(t) \/ TResetState(t) \/ TResetToken(t) \/ TResetFlag(t)
    \/ TShutdownRequest(t) \/ TShutdownWait(t) \/ TServerClose(t)
    \/ TBind(t) \/ TBindFails(t) \/ TServeForever(t)
    \/ TLoopStop(t) \/ TLoopError(t)
    \/ (\E r \in Requests : TServe(t, r))
    \/ THandlerCode(t) \/ THandlerState(t) \/ THandlerFlag(t)
    \/ TServeExit(t)

\* ------------------------------------------------------- main thread
\* Positions of the main thread inside authenticate.
ResetPcs == { "r_code", "r_state", "r_token", "r_flag" }
ShutdownPcs == { "s_req", "s_wait", "s_close" }
AuthPcs == { "a_begin", "a_thread", "a_wait_httpd", "a_poll", "a_check",
             "a_exchange", "a_token", "a_save" } \cup ResetPcs \cup ShutdownPcs
\* Positions at which the program has ended: normally, by sys.exit(1), by an
\* uncaught KeyboardInterrupt, by an exception reported on lines 426-428.
EndPcs == { "done", "exited", "killed", "raised" }

\* Where authenticate's caller continues: __init__ returns into main
\* (line 402), main goes on to get_todoist_data (line 411).
ReturnPc == IF caller = "init" THEN "main_check" ELSE "fetch"

\* line 68: load_access_token
InitLoad ==
    /\ pc = "init_load"
    /\ todoist_api_token' = LoadedToken(file)
    /\ pc' = "init_cfg"
    /\ UNCHANGED << trunc, file, todoist_response_auth_code, todoist_response_state,
                    todoist_oauth_callback_received, servers, ctx, stage,
                    caller, call, state, sd, timed_out, interrupted,
                    checked_state, sent_code, auth_result, result, bearer,
                    listv, spies, origin >>

\* lines 71-73: configure() returns True; authenticate unless a token loaded
InitConfigure ==
    /\ pc = "init_cfg"
    /\ IF Truthy(todoist_api_token)
         THEN pc' = "main_check" /\ UNCHANGED caller
         ELSE pc' = "a_begin" /\ caller' = "init"
    /\ UNCHANGED << trunc, file, shared, servers, ctx, stage, call, state, sd,
                    timed_out, interrupted, checked_state, sent_code,
                    auth_result, result, bearer, listv, spies, origin >>

\* lines 402-407 of main
MainCheck ==
    /\ pc = "main_check"
    /\ IF Truthy(todoist_api_token)
         THEN pc' = "fetch" /\ UNCHANGED caller
         ELSE pc' = "a_begin" /\ caller' = "main"
    /\ UNCHANGED << trunc, file, shared, servers, ctx, stage, call, state, sd,
                    timed_out, interrupted, checked_state, sent_code,
                    auth_result, result, bearer, listv, spies, origin >>

\* line 411: get_todoist_data builds f"Bearer {self.todoist_api_token}"
\* (line 264); the rest of main does not touch the state modelled here.
Fetch ==
    /\ pc = "fetch"
    /\ bearer' = Str(todoist_api_token)
    /\ pc' = "done"
    /\ UNCHANGED << trunc, file, shared, servers, ctx, stage, caller, call, state, sd,
                    timed_out, interrupted, checked_state, sent_code,
                    auth_result, result, listv, spies, origin >>

\* lines 151-162: a fresh state, the authorization URL, webbrowser.open
ABegin ==
    /\ pc = "a_begin"
    /\ call' = call + 1
    /\ state' = Uuid(call + 1)
    /\ browser_opens' = browser_opens + 1
    /\ timed_out' = FALSE
    /\ checked_state' = None
    /\ checked_by' = 0
    /\ sent_code' = None
    /\ auth_result' = None
    /\ ctx' = "none"
    /\ stage' = "direct"
    /\ pc' = "a_thread"
    /\ UNCHANGED << trunc, file, shared, servers, caller, sd, interrupted, result,
                    bearer, listv, code_by, state_by, exchange_calls,
                    save_calls >>

\* lines 165-167: a new listener thread starts at start_local_server; it
\* has sent no response and delivered nothing yet
AStartThread ==
    /\ pc = "a_thread"
    /\ lpc' = [lpc EXCEPT ![call] = "t_code"]
    /\ response' = 0
    /\ delivered' = 0
    /\ pc' = "a_wait_httpd"
    /\ UNCHANGED << trunc, file, shared, servers, ctx, stage, caller, call, state, sd,
                    timed_out, interrupted, checked_state, sent_code,
                    auth_result, result, bearer, lsd, h_code, h_state,
                    served, spies, origin >>

\* lines 170-171: leave the loop once the object has an httpd attribute
\* (while it has none the thread sleeps and tests again: no state change)
AWaitHttpd ==
    /\ pc = "a_wait_httpd"
    /\ httpd # 0
    /\ pc' = "a_poll"
    /\ UNCHANGED << trunc, file, shared, servers, ctx, stage, caller, call, state, sd,
                    timed_out, interrupted, checked_state, sent_code,
                    auth_result, result, bearer, listv, spies, origin >>

\* line 176: the flag is seen set; the loop ends and line 183 follows
APollReceived ==
    /\ pc = "a_poll"
    /\ todoist_oauth_callback_received
    /\ pc' = "s_req"
    /\ stage' = "direct"
    /\ UNCHANGED << trunc, file, shared, servers, ctx, caller, call, state, sd,
                    timed_out, interrupted, checked_state, sent_code,
                    auth_result, result, bearer, listv, spies, origin >>

\* lines 176-179: the flag is seen clear and the timeout has elapsed
\* (with time left the thread sleeps and tests again: no state change)
APollTimeout ==
    /\ pc = "a_poll"
    /\ ~todoist_oauth_callback_received
    /\ timed_out' = TRUE
    /\ ctx' = "timeout"
    /\ stage' = "reset"
    /\ pc' = "r_code"
    /\ UNCHANGED << trunc, file, shared, servers, caller, call, state, sd,
                    interrupted, checked_state, sent_code,
                    auth_result, result, bearer, listv, spies, origin >>

\* reset_auth called by authenticate (lines 179, 188, 196): lines 77-80
MResetCode ==
    /\ pc = "r_code"
    /\ code_by' = 0
    /\ todoist_response_auth_code' = None
    /\ pc' = "r_state"
    /\ UNCHANGED << trunc, file, todoist_api_token, todoist_response_state,
                    todoist_oauth_callback_received, servers, ctx, stage,
                    caller, call, state, sd, timed_out, interrupted,
                    checked_state, sent_code, auth_result, result, bearer,
                    listv, spies,
                    state_by, checked_by >>

MResetState ==
    /\ pc = "r_state"
    /\ state_by' = 0
    /\ todoist_response_state' = None
    /\ pc' = "r_token"
    /\ UNCHANGED << trunc, file, todoist_api_token, todoist_response_auth_code,
                    todoist_oauth_callback_received, servers, ctx, stage,
                    caller, call, state, sd, timed_out, interrupted,
                    checked_state, sent_code, auth_result, result, bearer,
                    listv, spies,
                    code_by, checked_by >>

MResetToken ==
    /\ pc = "r_token"
    /\ todoist_api_token' = None
    /\ pc' = "r_flag"
    /\ UNCHANGED << trunc, file, todoist_response_auth_code, todoist_response_state,
                    todoist_oauth_callback_received, servers, ctx, stage,
                    caller, call, state, sd, timed_out, interrupted,
                    checked_state, sent_code, auth_result, result, bearer,
                    listv, spies, origin >>

\* Variant of line 80 in which reset_auth leaves the flag as it is.
MResetFlag_Skip ==
    /\ pc = "r_flag"
    /\ pc' = "s_req"
    /\ UNCHANGED << trunc, file, todoist_api_token, todoist_response_auth_code,
                    todoist_response_state, todoist_oauth_callback_received,
                    servers, ctx, stage,
                    caller, call, state, sd, timed_out, interrupted,
                    checked_state, sent_code, auth_result, result, bearer,
                    listv, spies, origin >>

MResetFlag ==
    /\ pc = "r_flag"
    /\ todoist_oauth_callback_received' = FALSE
    /\ pc' = "s_req"
    /\ UNCHANGED << trunc, file, todoist_api_token, todoist_response_auth_code,
                    todoist_response_state, servers, ctx, stage,
                    caller, call, state, sd, timed_out, interrupted,
                    checked_state, sent_code, auth_result, result, bearer,
                    listv, spies, origin >>

\* shutdown_local_server, lines 142-144: httpd.shutdown() sets the shutdown
\* request of the server self.httpd names now, then waits for its event.
MShutdownRequest ==
    /\ pc = "s_req"
    /\ httpd # 0
    /\ shutdown_request' = [shutdown_request EXCEPT ![httpd] = TRUE]
    /\ sd' = httpd
    /\ pc' = "s_wait"
    /\ UNCHANGED << trunc, file, shared, httpd, sock, is_shut_down, ctx, stage,
                    caller, call, state, timed_out, interrupted,
                    checked_state, sent_code, auth_result, result, bearer,
                    listv, spies, origin >>

\* BaseServer.shutdown: self.__is_shut_down.wait()
MShutdownWait ==
    /\ pc = "s_wait"
    /\ is_shut_down[sd]
    /\ pc' = "s_close"
    /\ UNCHANGED << trunc, file, shared, servers, ctx, stage, caller, call, state, sd,
                    timed_out, interrupted, checked_state, sent_code,
                    auth_result, result, bearer, listv, spies, origin >>

\* line 145: server_close() on the server self.httpd names now; then
\* shutdown_local_server returns.  Called from reset_auth, authenticate goes
\* on to its own shutdown_local_server (lines 183, 189, 197); after that
\* comes join(timeout=2), which changes nothing, and then line 194, or
\* sys.exit(1) (line 191), or return False (line 199).
MServerClose ==
    /\ pc = "s_close"
    /\ sock' = [sock EXCEPT ![httpd] = "closed"]
    /\ IF stage = "reset"
         THEN /\ pc' = "s_req"
              /\ stage' = "direct"
              /\ ctx' = IF ctx = "timeout" THEN "none" ELSE ctx
              /\ UNCHANGED result
         ELSE /\ UNCHANGED << stage, ctx >>
              /\ pc' = CASE ctx = "none" -> "a_check"
                         [] ctx = "intr" -> "exited"
                         [] OTHER -> ReturnPc
              /\ result' = CASE ctx = "none" -> result
                             [] ctx = "intr" -> "exit"
                             [] OTHER -> "False"
    /\ UNCHANGED << trunc, file, shared, httpd, shutdown_request, is_shut_down,
                    caller, call, state, sd, timed_out, interrupted,
                    checked_state, sent_code, auth_result, bearer,
                    listv, spies, origin >>

\* lines 194-196: the state check
ACheckState ==
    /\ pc = "a_check"
    /\ checked_by' = state_by
    /\ checked_state' = todoist_response_state
    /\ IF StateMismatch(state, todoist_response_state)
         THEN pc' = "r_code" /\ ctx' = "mismatch" /\ stage' = "reset"
         ELSE pc' = "a_exchange" /\ UNCHANGED << ctx, stage >>
    /\ UNCHANGED << trunc, file, shared, servers, caller, call, state, sd,
                    timed_out, interrupted, sent_code,
                    auth_result, result, bearer, listv, spies,
                    code_by, state_by >>

\* lines 202-206: get_auth_token returns an access token
AExchange ==
    /\ pc = "a_exchange"
    /\ exchange_calls' = exchange_calls + 1
    /\ sent_code' = todoist_response_auth_code
    /\ \E tok \in NewTokens : auth_result' = tok
    /\ pc' = "a_token"
    /\ UNCHANGED << trunc, file, shared, servers, ctx, stage, caller, call, state, sd,
                    timed_out, interrupted, checked_state, result, bearer,
                    listv, origin, browser_opens, save_calls >>

\* Variant of the failing exchange in which the error is swallowed and
\* authenticate goes on to line 208 without a token.
AExchangeFails_Swallowed ==
    /\ pc = "a_exchange"
    /\ exchange_calls' = exchange_calls + 1
    /\ sent_code' = todoist_response_auth_code
    /\ pc' = "a_token"
    /\ UNCHANGED << trunc, file, shared, servers, ctx, stage, caller, call, state, sd,
                    timed_out, interrupted, checked_state, auth_result, result,
                    bearer, listv, origin, browser_opens, save_calls >>

\* lines 202-206: get_auth_token raises (network error, rejected code); the
\* exception leaves authenticate and is reported by main, lines 426-428
AExchangeFails ==
    /\ pc = "a_exchange"
    /\ exchange_calls' = exchange_calls + 1
    /\ sent_code' = todoist_response_auth_code
    /\ result' = "raised"
    /\ pc' = "raised"
    /\ UNCHANGED << trunc, file, shared, servers, ctx, stage, caller, call, state, sd,
                    timed_out, interrupted, checked_state, auth_result, bearer,
                    listv, origin, browser_opens, save_calls >>

\* line 208
ASetToken ==
    /\ pc = "a_token"
    /\ todoist_api_token' = auth_result
    /\ pc' = "a_save"
    /\ UNCHANGED << trunc, file, todoist_response_auth_code, todoist_response_state,
                    todoist_oauth_callback_received, servers, ctx, stage,
                    caller, call, state, sd, timed_out, interrupted,
                    checked_state, sent_code, auth_result, result, bearer,
                    listv, spies, origin >>

\* What json.dump({"access_token": token}, f) leaves in the file (line 383).
Record(token) == IF token = None THEN NullRecord ELSE token

\* lines 209-211 with save_access_token (lines 380-385) writing the record
ASave ==
    /\ pc = "a_save"
    /\ save_calls' = save_calls + 1
    /\ file' = Record(todoist_api_token)
    /\ result' = "True"
    /\ pc' = ReturnPc
    /\ UNCHANGED << trunc, shared, servers, ctx, stage, caller, call, state, sd,
                    timed_out, interrupted, checked_state, sent_code,
                    auth_result, bearer, listv, origin, browser_opens, exchange_calls >>

\* Variant of the failing save in which the exception is not caught in
\* save_access_token and leaves authenticate.
ASaveFails_Propagates ==
    /\ pc = "a_save"
    /\ save_calls' = save_calls + 1
    /\ file' \in { file, Corrupt }
    /\ result' = "raised"
    /\ pc' = "raised"
    /\ UNCHANGED << trunc, shared, servers, ctx, stage, caller, call, state, sd,
                    timed_out, interrupted, checked_state, sent_code,
                    auth_result, bearer, listv, origin, browser_opens, exchange_calls >>

\* lines 209-211 with save_access_token failing: open fails and the file is
\* as before, or the write fails and the file is left unreadable; the
\* exception is printed (lines 384-385)
ASaveFails ==
    /\ pc = "a_save"
    /\ save_calls' = save_calls + 1
    /\ file' \in { file, Corrupt }
    /\ result' = "True"
    /\ pc' = ReturnPc
    /\ UNCHANGED << trunc, shared, servers, ctx, stage, caller, call, state, sd,
                    timed_out, interrupted, checked_state, sent_code,
                    auth_result, bearer, listv, origin, browser_opens, exchange_calls >>

\* The try block of lines 173-184.
InTry == \/ pc = "a_poll"
         \/ pc \in ResetPcs \cup ShutdownPcs /\ ctx \in { "timeout", "none" }
\* Code of authenticate after the thread is started and outside the try
\* block, up to the exchange: lines 170-171 and 194-206.
OutsideTry == \/ pc \in { "a_wait_httpd", "a_check", "a_exchange" }
              \/ pc \in ResetPcs \cup ShutdownPcs /\ ctx = "mismatch"

\* KeyboardInterrupt inside the try block: line 186 catches it and the
\* handler starts with reset_auth (line 188)
InterruptInTry ==
    /\ ~interrupted
    /\ InTry
    /\ interrupted' = TRUE
    /\ ctx' = "intr"
    /\ stage' = "reset"
    /\ pc' = "r_code"
    /\ UNCHANGED << trunc, file, shared, servers, caller, call, state, sd,
                    timed_out, checked_state, sent_code,
                    auth_result, result, bearer, listv, spies, origin >>

\* KeyboardInterrupt outside the try block: nothing in authenticate, __init__
\* or main catches it (line 426 catches Exception only)
InterruptOutsideTry ==
    /\ ~interrupted
    /\ OutsideTry
    /\ interrupted' = TRUE
    /\ result' = "interrupt"
    /\ pc' = "killed"
    /\ UNCHANGED << trunc, file, shared, servers, ctx, stage, caller, call, state, sd,
                    timed_out, checked_state, sent_code,
                    auth_result, bearer, listv, spies, origin >>

MainThread ==
    \/ InitLoad \/ InitConfigure \/ MainCheck \/ Fetch
    \/ ABegin \/ AStartThread \/ AWaitHttpd \/ APollReceived \/ APollTimeout
    \/ MResetCode \/ MResetState \/ MResetToken \/ MResetFlag
    \/ MShutdownRequest \/ MShutdownWait \/ MServerClose
    \/ ACheckState \/ AExchange \/ AExchangeFails \/ ASetToken
    \/ ASave \/ ASaveFails

Interrupt == InterruptInTry \/ InterruptOutsideTry

Next == MainThread \/ Interrupt \/ (\E t \in Calls : Listener(t))

Spec == Init /\ [][Next]_vars

\* The threads are scheduled: a thread that can take a step of its own code
\* eventually does, and with it time passes in the wait loop.  Requests,
\* failed binds and interrupts come from outside and are not promised.
ListenerCode(t) ==
    \/ TResetCode(t) \/ TResetState(t) \/ TResetToken(t) \/ TResetFlag(t)
    \/ TShutdownRequest(t) \/ TShutdownWait(t) \/ TServerClose(t)
    \/ TBind(t) \/ TBindFails(t) \/ TServeForever(t)
    \/ TLoopStop(t) \/ TLoopError(t)
    \/ THandlerCode(t) \/ THandlerState(t) \/ THandlerFlag(t)
    \/ TServeExit(t)

FairSpec ==
    /\ Spec
    /\ WF_vars(MainThread)
    /\ \A t \in Calls : WF_vars(ListenerCode(t))

\* ================================================================ claims
\* The authenticate call in progress, or the last one made, is call `call`.
HandlerPcs == { "h_code", "h_state", "h_flag" }
AfterCheckPcs == { "a_exchange", "a_token", "a_save" }
Exited == call >= 1 /\ pc \notin AuthPcs
ListenerStopped(t) == lpc[t] \in { "done", "dead" } /\ sock[t] # "open"

\* C1: when the state that line 194 reads differs, as text, from the state
\* generated for the call, the call does not reach the token exchange, makes
\* no call of get_auth_token, saves nothing and does not return True.
C1_MismatchNeverExchanges ==
    Str(checked_state) # Str(state) =>
        /\ pc \notin AfterCheckPcs
        /\ exchange_calls = 0
        /\ save_calls = 0
        /\ result # "True"

\* C1 witness: a callback delivered a state other than the generated one, the
\* check read it, and the call returned False without any exchange.
C1_Witness ==
    /\ result = "False"
    /\ ~timed_out
    /\ checked_state \notin { None, state }
    /\ delivered >= 1
    /\ exchange_calls = 0

\* C2: the token file changes only in save_access_token of a call whose
\* state check passed and whose exchange returned a token; a call that ends
\* in failure (return False, exception, sys.exit, interrupt) has not written.
C2_WriteOnlyAfterValidatedExchange ==
    /\ [][ file' # file =>
             /\ pc = "a_save"
             /\ Str(checked_state) = Str(state)
             /\ auth_result \in NewTokens
             /\ exchange_calls >= 1 ]_vars
    /\ [](result \in { "False", "raised", "exit", "interrupt" } => save_calls = 0)

\* C2 witness: the first flow failed, the second one validated, exchanged
\* and wrote the record.
C2_Witness ==
    /\ call = 2
    /\ result = "True"
    /\ file \in NewTokens
    /\ save_calls = 1

\* C3: a failed bind of the current call's listener leads to authenticate
\* ending.
C3_BindFailureEndsAuthenticate ==
    \A t \in Calls : (call = t /\ lpc[t] = "dead") ~> (pc \notin AuthPcs)

\* C4: a call whose wait loop decided the timeout makes no exchange, saves
\* nothing and does not return True.
C4_TimeoutAborts ==
    timed_out =>
        /\ pc \notin AfterCheckPcs
        /\ exchange_calls = 0
        /\ save_calls = 0
        /\ result # "True"

\* C5: once an authenticate call has ended, on any path, the listener
\* thread of that call has stopped and its socket is not left open.
C5_ListenerStoppedOnExit ==
    Exited => ListenerStopped(call)

\* C6: a listener sets the callback-received flag at most once.
C6_AtMostOneDelivery ==
    delivered <= 1

\* C7: a request to the callback path that lacks code or state (absent or
\* blank) stores nothing, leaves the flag, the listener in its serving loop
\* and the caller where it is; and the caller gets past its wait loop only
\* after a delivery by the call's listener, after the timeout, or by an
\* interrupt; and a caller in the wait loop leaves it, by the timeout if
\* nothing is delivered.
Incomplete(r) == r.code \in { Missing, "" } \/ r.state \in { Missing, "" }
InWaitOrBefore == pc \in { "a_begin", "a_thread", "a_wait_httpd", "a_poll" }
C7_IncompleteCallbackIgnored ==
    /\ [][ \A t \in Calls :
             (lpc[t] = "t_loop" /\ served' # served) =>
                 \/ /\ UNCHANGED << shared, delivered, pc, servers >>
                    /\ lpc'[t] = "t_loop"
                 \/ \A r \in Requests : Incomplete(r) => ~TServe(t, r) ]_vars
    /\ []( ( /\ call >= 1
             /\ ~InWaitOrBefore
             /\ ~timed_out
             /\ ctx # "intr"
             /\ pc # "killed" ) => delivered >= 1 )
    /\ (pc = "a_poll") ~> (timed_out \/ delivered >= 1 \/ interrupted)

\* C7 witness: one request was served on the callback path (answered 200)
\* and nothing was delivered; the listener serves on and the caller polls.
C7_Witness ==
    /\ call >= 1
    /\ pc = "a_poll"
    /\ served = 1
    /\ response = 200
    /\ delivered = 0
    /\ lpc[call] = "t_loop"
    /\ ~todoist_oauth_callback_received

\* C8: a request whose path is not exactly /callback is answered 404 and
\* starts no store of code, state or flag.
C8_OtherPathIs404 ==
    [][ served' # served =>
          \A t \in Calls : \A r \in Requests :
             (TServe(t, r) /\ r.path # CallbackPath) =>
                 /\ response' = 404
                 /\ lpc'[t] = "t_loop" ]_vars

\* C9: with a token in the file, nothing of the authorization flow runs:
\* no browser, no listener thread, no exchange, no authenticate call; the
\* object holds the file's token and get_todoist_data sends it.
C9_StoredTokenSkipsFlow ==
    file = OldToken =>
        /\ browser_opens = 0
        /\ exchange_calls = 0
        /\ call = 0
        /\ \A t \in Calls : lpc[t] = "idle"
        /\ pc \notin AuthPcs
        /\ (pc # "init_load" => todoist_api_token = OldToken)
        /\ (pc = "done" => bearer = OldToken)

\* C9 witness: main ran to its end on the stored token.
C9_Witness ==
    /\ file = OldToken
    /\ pc = "done"
    /\ bearer = OldToken
    /\ browser_opens = 0

\* C10: after an interrupt has ended authenticate, the listener thread of
\* the call has stopped, its socket is closed and nothing was saved.
C10_InterruptStopsListener ==
    (interrupted /\ pc \in { "exited", "killed" }) =>
        /\ ListenerStopped(call)
        /\ save_calls = 0

\* C11: when save_access_token was called and did not write the record (the
\* file holds no record made from a token), authenticate has returned True,
\* no exception has ended the program, and the object holds the access token
\* the exchange returned, which main goes on to use.
SaveFailed == save_calls >= 1 /\ file \notin NewTokens \cup { NullRecord }
C11_SaveFailureAbsorbed ==
    SaveFailed =>
        /\ result = "True"
        /\ pc \in { "main_check", "fetch", "done" }
        /\ auth_result \in NewTokens
        /\ todoist_api_token = auth_result
        /\ (pc = "done" => bearer = auth_result)

\* C11 witness: the write failed after an exchange, and main ran on with
\* the exchanged token in memory.
C11_Witness ==
    /\ SaveFailed
    /\ exchange_calls = 1
    /\ pc = "done"
    /\ bearer \in NewTokens

\* C12: a later authenticate call consumes nothing of the earlier flow. When
\* the earlier call has returned and the later one (main, line 404) starts, the
\* flag is clear and code and state are None; during the later call the
\* earlier listener thread writes nothing any more; and when the later call
\* has left its wait loop without a timeout and without an interrupt, its
\* own listener has delivered a callback since the thread was started.
PastWaitLoop ==
    pc \in ResetPcs \cup ShutdownPcs \cup { "a_check" } \cup AfterCheckPcs
C16_FlagImpliesCodeAndState ==
    ( pc = "a_poll" /\ todoist_oauth_callback_received ) =>
        /\ Truthy(todoist_response_auth_code)
        /\ Truthy(todoist_response_state)

\* C16 witness: the caller is in the wait loop, the listener has handled a
\* complete callback and the flag is set.
C16_Witness ==
    /\ pc = "a_poll"
    /\ todoist_oauth_callback_received
    /\ delivered >= 1
    /\ lpc[call] = "t_loop"

\* C13: once the caller has seen the flag set on line 176, the listener of
\* the call serves nothing more: at the state comparison and from the
\* exchange on, the listener thread of the call has left serve_forever, and
\* a callback request (answered 200) accepted after the flag was seen is at
\* most one still inside do_GET's stores when httpd.shutdown() is called,
\* never one that is handled completely.
FlagSeen == PastWaitLoop /\ ~timed_out /\ ctx # "intr"
C13_ListenerStoppedOnceFlagSeen ==
    /\ []( ( FlagSeen /\ pc \in { "a_check" } \cup AfterCheckPcs ) =>
               lpc[call] \in { "t_exit", "done", "dead" } )
    /\ [][ ( FlagSeen /\ served' # served /\ response' = 200 ) =>
               lpc'[call] \in HandlerPcs ]_vars

\* C14: while an authenticate call is running, every step that changes the
\* stored code, the stored state or the flag is a step of a listener thread
\* (it moves a listener thread and leaves the caller where it is).
CallbackResult == << todoist_response_auth_code, todoist_response_state,
                     todoist_oauth_callback_received >>
C14_OnlyListenerWrites ==
    [][ ( pc \in AuthPcs /\ CallbackResult' # CallbackResult ) =>
            /\ pc' = pc
            /\ \E t \in Calls : lpc'[t] # lpc[t] ]_vars

\* C17: after an authenticate call has returned False, the program starts no
\* further authenticate call, and it does not carry on to get_todoist_data
\* as if the call had succeeded.
C17_NoAutomaticRetry ==
    /\ [][ result = "False" => call' = call ]_vars
    /\ []( result = "False" => pc \notin { "fetch", "done" } )

\* C15: at every call of get_auth_token, the stored code it sends was stored
\* by a callback request, and by the same request that stored the state
\* which line 194 compared.
C15_CodeAndStateOfOneRequest ==
    [][ exchange_calls' # exchange_calls =>
            /\ code_by # 0
            /\ code_by = checked_by ]_vars

\* ------------------------------------------- truncate_data_to_limit
\* The method reads and writes no attribute of the object, so its calls are
\* explored on the object as constructed, over bounded argument values.  A
\* task is represented by its name and the length of its json.dumps text.
MaxTasks == 3
MaxLimit == 24
Tasks == { "t1", "t2", "t3" }
DumpLen(item) == CASE item = "t1" -> 2
                   [] item = "t2" -> 5
                   [] item = "t3" -> 9

RECURSIVE SumLen(_)
SumLen(l) == IF l = << >> THEN 0 ELSE DumpLen(Head(l)) + SumLen(Tail(l))

\* len(json.dumps(l).encode('utf-8')) for a list l: the brackets, the items
\* and the default separator ", " between them (line 337).
JsonSize(l) == IF l = << >> THEN 2 ELSE 2 + SumLen(l) + 2 * (Len(l) - 1)

TaskLists == UNION { [1..n -> Tasks] : n \in 0..MaxTasks }

\* list.pop() of line 340
Pop(l) == SubSeq(l, 1, Len(l) - 1)

\* line 328: the call, with its arguments; line 329
TruncInit ==
    /\ InitObject
    /\ file = Absent
    /\ \E tl \in TaskLists, lb \in 0..MaxLimit :
         trunc = [ tpc |-> "for", task_list |-> tl, limit_bytes |-> lb,
                   new_list |-> << >>, pos |-> 0 ]

\* lines 332-334: the for statement takes the next item and appends it, or
\* the list is exhausted and line 342 follows
TruncFor ==
    /\ trunc.tpc = "for"
    /\ IF trunc.pos < Len(trunc.task_list)
         THEN trunc' = [ trunc EXCEPT
                  !.new_list = Append(@, trunc.task_list[trunc.pos + 1]),
                  !.pos = @ + 1,
                  !.tpc = "size" ]
         ELSE trunc' = [ trunc EXCEPT !.tpc = "return" ]
    /\ UNCHANGED << file, shared, servers, mainv, listv, spies, origin >>

\* Variant of lines 338-341 that leaves the loop without new_list.pop().
TruncSize_NoPop ==
    /\ trunc.tpc = "size"
    /\ IF JsonSize(trunc.new_list) > trunc.limit_bytes
         THEN trunc' = [ trunc EXCEPT !.tpc = "return" ]
         ELSE trunc' = [ trunc EXCEPT !.tpc = "for" ]
    /\ UNCHANGED << file, shared, servers, mainv, listv, spies, origin >>

\* lines 337-341: the size test; over the limit, the item is removed again
\* and the loop is left
TruncSize ==
    /\ trunc.tpc = "size"
    /\ IF JsonSize(trunc.new_list) > trunc.limit_bytes
         THEN trunc' = [ trunc EXCEPT !.new_list = Pop(@), !.tpc = "return" ]
         ELSE trunc' = [ trunc EXCEPT !.tpc = "for" ]
    /\ UNCHANGED << file, shared, servers, mainv, listv, spies, origin >>

\* line 342
TruncReturn ==
    /\ trunc.tpc = "return"
    /\ trunc' = [ trunc EXCEPT !.tpc = "returned" ]
    /\ UNCHANGED << file, shared, servers, mainv, listv, spies, origin >>

TruncNext == TruncFor \/ TruncSize \/ TruncReturn

TruncSpec == TruncInit /\ [][TruncNext]_vars

IsPrefix(p, l) == Len(p) <= Len(l) /\ p = SubSeq(l, 1, Len(p))

\* The result is a prefix of task_list that fits limit_bytes and cannot be
\* made longer.
LongestFittingPrefix ==
    /\ IsPrefix(trunc.new_list, trunc.task_list)
    /\ JsonSize(trunc.new_list) <= trunc.limit_bytes
    /\ \/ trunc.new_list = trunc.task_list
       \/ JsonSize(SubSeq(trunc.task_list, 1, Len(trunc.new_list) + 1))
              > trunc.limit_bytes

\* C18 as stated: for every task_list and every limit_bytes, the list
\* returned is a prefix of task_list in the same order, its JSON text has at
\* most limit_bytes bytes, and it is the longest such prefix.
C18_LongestPrefixAnyLimit ==
    trunc.tpc = "returned" => LongestFittingPrefix

\* C18: for limit_bytes of at least 2, the size of the JSON text of the
\* empty list, the list returned is a prefix of task_list in the same order,
\* its JSON text has at most limit_bytes bytes, and it is the longest such
\* prefix.
C18_LongestPrefixFromTwoBytes ==
    ( trunc.tpc = "returned" /\ trunc.limit_bytes >= 2 ) =>
        LongestFittingPrefix

\* C18 witness: a call returned a non-empty proper prefix, the next item
\* having been appended and removed again.
C18_Witness ==
    /\ trunc.tpc = "returned"
    /\ trunc.limit_bytes >= 2
    /\ Len(trunc.new_list) >= 1
    /\ Len(trunc.new_list) < Len(trunc.task_list)
    /\ trunc.pos = Len(trunc.new_list) + 1

====
